---- MODULE Spec2Model ----
(***************************************************************************)
(* Model of drc.cmis.client.CMISDRCClient (src/src/drc/cmis/client.py):    *)
(* the changelog synchronisation (sync) with its run ledger (ChangeLog)    *)
(* and the local document records (EnkelvoudigInformatieObject), and the   *)
(* document operations on the CMIS store (create, read, checkout, cancel,  *)
(* update / check-in, link to a case, unlink, delete).                     *)
(*                                                                         *)
(* sync is decorated with transaction.atomic: what a call writes to the    *)
(* database is private to the call until it returns, is committed when it  *)
(* returns normally and is discarded when it raises.  A call reads the     *)
(* committed rows and its own writes.                                      *)
(***************************************************************************)
EXTENDS Integers, Sequences, FiniteSets, TLC

VARIABLES
    storeToken,   \* self._repo.info['latestChangeLogToken']
    changes,      \* the store's change log after position changesFrom
    changesFrom,  \* the token at which the retained change log starts
    ledger,       \* committed ChangeLog rows: [pk, token, status]
    nextPk,       \* the ChangeLog primary-key sequence
    records,      \* committed EnkelvoudigInformatieObject rows, by identificatie
    run,          \* per caller: the locals of its sync call and its last result
    tx,           \* per caller: the uncommitted writes of its transaction
    docs,         \* the store's documents, by object id
    pwcs,         \* the store's private working copies (locks)
    folders,      \* the store's folders, by path
    nextObj,      \* the store's object id sequence
    nextPwc,      \* the store's working-copy id sequence
    last          \* the last document operation and how it ended

vars == <<storeToken, changes, changesFrom, ledger, nextPk, records, run, tx,
          docs, pwcs, folders, nextObj, nextPwc, last>>

syncVars == <<storeToken, changes, changesFrom, ledger, nextPk, run, tx>>
docVars == <<docs, pwcs, folders, nextObj, nextPwc, last>>

(***************************************************************************)
(* Bounds of the model.                                                    *)
(***************************************************************************)
MaxLog == 2        \* longest change log window drawn
MaxConcLog == 1    \* longest window drawn when two calls interleave
MaxToken == 1      \* largest token of a run completed before the model starts
MaxCalls == 2      \* ChangeLog rows created per behaviour
MaxStoreObjs == 2  \* store documents created per behaviour
MaxCheckouts == 2  \* working copies created per behaviour

None == "None"
NoCheckout == 0    \* checkout_id=None
NoRow == <<>>      \* change_log = None
Row(pk) == <<pk>>  \* change_log bound to the row with this pk

(***************************************************************************)
(* choices.py, as client.py uses it.                                       *)
(***************************************************************************)
in_progress == "in_progress"
completed == "completed"
CMISChangeType == {"created", "updated", "deleted", "security"}
ChangeTypes == CMISChangeType \cup {"other"}
edc == "edc"

Max(S) == CHOOSE x \in S : \A y \in S : y <= x

ZeroCounts == [created |-> 0, updated |-> 0, deleted |-> 0, security |-> 0, failed |-> 0]
CounterKeys == DOMAIN ZeroCounts
EmptyDict == [k \in {} |-> 0]

(***************************************************************************)
(* The world the synchronisation runs against: store objects 1, 2 and 5    *)
(* exist (5 is a folder), objects 3 and 4 are gone from the store; local   *)
(* records exist for the documents 1 and 3.                                *)
(***************************************************************************)
SyncObjs == {1, 2, 3, 4}
SyncEntries == [objectId : SyncObjs, changeType : ChangeTypes]

StoreDoc(i, type) ==
    [identificatie |-> i, objectTypeId |-> type, parent |-> <<"root", "Zaken", 0, "z1", 0>>,
     content |-> 0, props |-> [meta |-> 1, name |-> "titel"]]

\* auteur: the field zsdms:documentauteur is derived from
LocalRecord(o, m) == [object_id |-> o, meta |-> m, auteur |-> "auteur"]

SyncDocs == (1 :> StoreDoc(1, edc)) @@ (2 :> StoreDoc(2, edc))
SyncRecords == (1 :> LocalRecord(1, 0)) @@ (3 :> LocalRecord(3, 0))

SeqsUpTo(S, n) == UNION {[1..k -> S] : k \in 0..n}

IdleRun ==
    [pc |-> "idle", dryrun |-> FALSE, token |-> 0, change_log |-> NoRow,
     own |-> NoRow, max_items |-> 0, window |-> <<>>, idx |-> 1, cache |-> {},
     counts |-> ZeroCounts, outcomes |-> <<>>, getChanges |-> <<>>,
     result |-> [kind |-> "none", value |-> EmptyDict]]

EmptyTx == [rows |-> {}, deleted |-> {}, updated |-> EmptyDict]

\* the last document operation: its name, arguments, outcome and return value
\* (stage: the call of the handler at which it ended)
Ended(op, document, arg, stage, result, ret) ==
    [op |-> op, doc |-> document, arg |-> arg, stage |-> stage,
     result |-> result, ret |-> ret]



Callers == {1, 2}

(***************************************************************************)
(* The database as a sync call sees it inside its transaction.             *)
(***************************************************************************)
VisibleRows(p) == ledger \cup tx[p].rows

View(p) ==
    [i \in (DOMAIN records \ tx[p].deleted) |->
        IF i \in DOMAIN tx[p].updated
        THEN [records[i] EXCEPT !.meta = tx[p].updated[i]]
        ELSE records[i]]

\* ChangeLog.objects.create(token=...): a new row starts in_progress.
NewChangeLog(pk, token) == [pk |-> pk, token |-> token, status |-> in_progress]

\* self._repo.getContentChanges(changeLogToken=t, maxItems=n)
GetContentChanges(t, n) ==
    LET avail == changesFrom + Len(changes) - t
        k == IF t < changesFrom \/ avail < 0 THEN 0
             ELSE IF avail < n THEN avail ELSE n
    IN [i \in 1..k |-> changes[t - changesFrom + i]]

Returned(r, kind, value) ==
    [r EXCEPT !.pc = "idle", !.result = [kind |-> kind, value |-> value]]

(***************************************************************************)
(* sync(dryrun=True): lines 339-345. Everything after the token is read    *)
(* sits under "if not dryrun", so the call falls off the end of the        *)
(* function.                                                               *)
(***************************************************************************)
sync_dryrun_writes(p) ==
    /\ run[p].pc = "idle"
    /\ nextPk <= MaxCalls
    /\ tx' = [tx EXCEPT ![p].rows = @ \cup {NewChangeLog(nextPk, storeToken)}]
    /\ nextPk' = nextPk + 1
    /\ run' = [run EXCEPT ![p] =
                 [IdleRun EXCEPT !.pc = "check", !.dryrun = TRUE, !.token = storeToken,
                                 !.change_log = Row(nextPk), !.own = Row(nextPk)]]
    /\ UNCHANGED <<storeToken, changes, changesFrom, ledger, records>>
    /\ UNCHANGED docVars

sync_dryrun(p) ==
    /\ run[p].pc = "idle"
    /\ run' = [run EXCEPT ![p] =
                 Returned([IdleRun EXCEPT !.dryrun = TRUE, !.token = storeToken],
                          "None", EmptyDict)]
    /\ UNCHANGED <<storeToken, changes, changesFrom, ledger, nextPk, records, tx>>
    /\ UNCHANGED docVars

(***************************************************************************)
(* sync(dryrun=False), lines 339-346: read the token, create the run row.  *)
(***************************************************************************)
sync_create(p) ==
    /\ run[p].pc = "idle"
    /\ nextPk <= MaxCalls
    /\ tx' = [tx EXCEPT ![p].rows = @ \cup {NewChangeLog(nextPk, storeToken)}]
    /\ nextPk' = nextPk + 1
    /\ run' = [run EXCEPT ![p] =
                 [IdleRun EXCEPT !.pc = "check", !.token = storeToken,
                                 !.change_log = Row(nextPk), !.own = Row(nextPk)]]
    /\ UNCHANGED <<storeToken, changes, changesFrom, ledger, records>>
    /\ UNCHANGED docVars

(***************************************************************************)
(* lines 347-351: another run in_progress: delete the row and raise (the   *)
(* transaction is rolled back); otherwise change_log = None.               *)
(***************************************************************************)
sync_check(p) ==
    /\ run[p].pc = "check"
    /\ LET others == {r \in VisibleRows(p) :
                        Row(r.pk) # run[p].change_log /\ r.status = in_progress}
       IN IF others # {}
          THEN /\ tx' = [tx EXCEPT ![p] = EmptyTx]
               /\ run' = [run EXCEPT ![p] =
                            Returned(run[p], "SyncException", "already running")]
          ELSE /\ tx' = tx
               /\ run' = [run EXCEPT ![p].pc = "window", ![p].change_log = NoRow]
    /\ UNCHANGED <<storeToken, changes, changesFrom, ledger, nextPk, records>>
    /\ UNCHANGED docVars

last_zs_change_log_token_zero(rows) == 0

\* lines 352-353: the token of the last completed row, 0 when there is none
last_zs_change_log_token(rows) ==
    LET done == {r \in rows : r.status = completed}
        last_change_log == CHOOSE r \in done : r.pk = Max({q.pk : q \in done})
    IN IF done = {} THEN 0 ELSE last_change_log.token

OlderThanRecords_never(max_items) == FALSE

\* line 355: the store's token is behind the last completed run's
OlderThanRecords(max_items) == max_items < 0

(***************************************************************************)
(* lines 352-364: the window; negative raises, zero returns {} (and the    *)
(* transaction commits), positive calls getContentChanges.                 *)
(***************************************************************************)
sync_window(p) ==
    /\ run[p].pc = "window"
    /\ LET since == last_zs_change_log_token(VisibleRows(p))
           max_items == run[p].token - since
           result_set == GetContentChanges(since, max_items)
       IN IF OlderThanRecords(max_items)
          THEN /\ tx' = [tx EXCEPT ![p] = EmptyTx]
               /\ run' = [run EXCEPT ![p] =
                            Returned([run[p] EXCEPT !.max_items = max_items],
                                     "SyncException", "older than our records")]
               /\ UNCHANGED <<ledger, records>>
          ELSE IF max_items = 0
          THEN /\ ledger' = ledger \cup tx[p].rows
               /\ records' = View(p)
               /\ tx' = [tx EXCEPT ![p] = EmptyTx]
               /\ run' = [run EXCEPT ![p] =
                            Returned([run[p] EXCEPT !.max_items = max_items],
                                     "dict", EmptyDict)]
          ELSE /\ run' = [run EXCEPT
                            ![p].max_items = max_items,
                            ![p].window = result_set,
                            ![p].getChanges =
                                Append(@, [changeLogToken |-> since,
                                           maxItems |-> max_items]),
                            ![p].pc = IF Len(result_set) = 0 THEN "finish" ELSE "loop"]
               /\ UNCHANGED <<ledger, records, tx>>
    /\ UNCHANGED <<storeToken, changes, changesFrom, nextPk>>
    /\ UNCHANGED docVars

Count(c, key) == [c EXCEPT ![key] = @ + 1]

EntryDone_abort(r, outcome) ==
    IF outcome = "exception"
    THEN [r EXCEPT !.pc = "idle", !.result = [kind |-> "Exception", value |-> EmptyDict]]
    ELSE [r EXCEPT !.idx = @ + 1,
                   !.pc = IF r.idx + 1 > Len(r.window) THEN "finish" ELSE "loop",
                   !.outcomes = Append(@, outcome)]

\* lines 365 and 413-419: whatever the entry did, the loop takes the next one
EntryDone(r, outcome) ==
    [r EXCEPT !.idx = @ + 1,
              !.pc = IF r.idx + 1 > Len(r.window) THEN "finish" ELSE "loop",
              !.outcomes = Append(@, outcome)]

cache_key_by_object(object_id, change_type) == <<object_id, "-">>

\* line 368: '{}-{}'.format(object_id, change_type); no change type holds a
\* '-', so two keys are equal only when both parts are
cache_key(object_id, change_type) == <<object_id, "-", change_type>>

(***************************************************************************)
(* lines 365-419: one change entry. exc: a statement of the try block      *)
(* raises something other than what the inner handlers catch.              *)
(***************************************************************************)
sync_entry(p) ==
    /\ run[p].pc = "loop"
    /\ \E exc \in BOOLEAN :
       LET r == run[p]
           change_entry == r.window[r.idx]
           change_type == change_entry.changeType
           object_id == change_entry.objectId
           key == cache_key(object_id, change_type)
           local == View(p)
           matching == {i \in DOMAIN local : local[i].object_id = object_id}
           \* what the try block does: <<outcome, counter or None, transaction>>
           step ==
             IF change_type \in {"created", "updated"}
             THEN IF exc THEN <<"exception", "failed", tx[p]>>
                  ELSE IF object_id \notin DOMAIN docs
                  THEN <<"not in store", "failed", tx[p]>>
                  ELSE IF docs[object_id].objectTypeId = edc
                  THEN IF change_type = "updated"
                       THEN IF docs[object_id].identificatie \in DOMAIN local
                            THEN <<"updated", "updated",
                                   IF ~r.dryrun
                                   THEN [tx[p] EXCEPT !.updated =
                                           (docs[object_id].identificatie :>
                                              docs[object_id].props.meta) @@ @]
                                   ELSE tx[p]>>
                            ELSE <<"no record", "failed", tx[p]>>
                       ELSE <<"created", "created", tx[p]>>
                  ELSE <<"ignored", None, tx[p]>>
             ELSE IF change_type = "deleted"
             THEN IF ~r.dryrun
                  THEN IF exc THEN <<"exception", "failed", tx[p]>>
                       ELSE IF matching = {}
                       THEN <<"no record", "failed", tx[p]>>
                       ELSE <<"deleted", "deleted",
                              [tx[p] EXCEPT !.deleted = @ \cup matching]>>
                  ELSE IF change_type = "security"
                       THEN <<"security", "security", tx[p]>>
                       ELSE <<"unsupported", "failed", tx[p]>>
             ELSE <<"ignored", None, tx[p]>>
       IN IF key \in r.cache
          THEN /\ run' = [run EXCEPT ![p] = EntryDone(r, "skipped")]
               /\ tx' = tx
          ELSE /\ run' = [run EXCEPT ![p] =
                            EntryDone([r EXCEPT
                                         !.cache = @ \cup {key},
                                         !.counts = IF step[2] = None THEN @
                                                    ELSE Count(@, step[2])],
                                      step[1])]
               /\ tx' = [tx EXCEPT ![p] = step[3]]
    /\ UNCHANGED <<storeToken, changes, changesFrom, ledger, nextPk, records>>
    /\ UNCHANGED docVars

(***************************************************************************)
(* lines 421-430: mark the run completed and return the counters.          *)
(* change_log.status on None raises AttributeError: the transaction is     *)
(* rolled back.                                                            *)
(***************************************************************************)
sync_finish(p) ==
    /\ run[p].pc = "finish"
    /\ IF ~run[p].dryrun /\ run[p].change_log = NoRow
       THEN /\ tx' = [tx EXCEPT ![p] = EmptyTx]
            /\ run' = [run EXCEPT ![p] = Returned(run[p], "AttributeError", "status")]
            /\ UNCHANGED <<ledger, records>>
       ELSE /\ ledger' = ledger \cup
                  {IF ~run[p].dryrun /\ Row(row.pk) = run[p].change_log
                   THEN [row EXCEPT !.status = completed] ELSE row :
                   row \in tx[p].rows}
            /\ records' = View(p)
            /\ tx' = [tx EXCEPT ![p] = EmptyTx]
            /\ run' = [run EXCEPT ![p] = Returned(run[p], "dict", run[p].counts)]
    /\ UNCHANGED <<storeToken, changes, changesFrom, nextPk>>
    /\ UNCHANGED docVars

sync(p) ==
    \/ sync_dryrun(p)
    \/ sync_create(p)
    \/ sync_check(p)
    \/ sync_window(p)
    \/ sync_entry(p)
    \/ sync_finish(p)

(***************************************************************************)
(* Initial states of the synchronisation: a ledger that is empty or holds  *)
(* one run completed at token t, and a store whose token is behind, at or  *)
(* ahead of it by a window of change entries.                              *)
(***************************************************************************)
InitDocsIdle ==
    /\ pwcs = {}
    /\ folders = {}
    /\ nextObj = 1
    /\ nextPwc = 1
    /\ last = Ended("none", 0, NoCheckout, "done",
                                "ok", None)

InitSyncWith(windows) ==
    /\ \E t \in 0..MaxToken :
         /\ ledger = IF t = 0 THEN {}
                     ELSE {[pk |-> 0, token |-> t, status |-> completed]}
         /\ \/ /\ \E w \in windows : changes = w
               /\ changesFrom = t
               /\ storeToken = t + Len(changes)
            \/ /\ t > 0
               /\ changes = <<>>
               /\ \E s \in 0..(t - 1) : storeToken = s /\ changesFrom = s
    /\ nextPk = 1
    /\ records = SyncRecords
    /\ docs = SyncDocs
    /\ run = [p \in Callers |-> IdleRun]
    /\ tx = [p \in Callers |-> EmptyTx]
    /\ InitDocsIdle

Init == InitSyncWith(SeqsUpTo(SyncEntries, MaxLog))

Next == sync(1)

Spec == Init /\ [][Next]_vars

(***************************************************************************)
(* The document operations.  A store document is found by its              *)
(* zsdms:documentIdentificatie (document_query); a working copy belongs to *)
(* the document it was checked out from.                                   *)
(***************************************************************************)
Idents == {1, 2}          \* the local documents (identificatie)
ZaakUrls == {"z1"}
User == "drc"             \* settings.CMIS_CLIENT_USER
TEMP_FOLDER_NAME == "_temp"
RootFolder == <<"root">>  \* self._root_folder
NoFolder == <<>>          \* getObjectByPath raises ObjectNotFoundException

\* upload_to(zaak_url): the folder names from the root to the case folder
upload_to(zaak_url) == <<"Zaken", zaak_url>>

QueryResult_filed(document) ==
    {o \in DOMAIN docs : /\ docs[o].identificatie = document
                         /\ docs[o].parent[2] # "Unfiled"}

\* lines 95-99: the store objects the document query returns
QueryResult(document) == {o \in DOMAIN docs : docs[o].identificatie = document}

\* doc.getPrivateWorkingCopy(), lines 102 and 297
PrivateWorkingCopies(o) == {w \in pwcs : w.doc = o}

get_cmis_doc_unchecked(document, checkout_id) ==
    IF QueryResult(document) = {}
    THEN [exc |-> "DocumentDoesNotExistError", doc |-> 0]
    ELSE [exc |-> "ok", doc |-> CHOOSE o \in QueryResult(document) : TRUE]

\* lines 88-105: "ok" and the object, or the exception raised
get_cmis_doc(document, checkout_id) ==
    IF QueryResult(document) = {}
    THEN [exc |-> "DocumentDoesNotExistError", doc |-> 0]
    ELSE LET doc == CHOOSE o \in QueryResult(document) : TRUE
         IN IF checkout_id # NoCheckout
               /\ \A w \in PrivateWorkingCopies(doc) : w.id # checkout_id
            THEN [exc |-> "DocumentConflictException", doc |-> doc]
            ELSE [exc |-> "ok", doc |-> doc]

\* lines 295-298
is_locked(document) ==
    PrivateWorkingCopies(get_cmis_doc(document, NoCheckout).doc) # {}

\* lines 66-71: the folder named name under parent, and the folders afterwards
ChildFolders(fs, parent) == {f \in fs : f.parent = parent}

get_or_create_folder_always(fs, name, parent) ==
    LET new == [id |-> parent \o <<name, Cardinality(ChildFolders(fs, parent))>>,
                name |-> name, parent |-> parent]
    IN [folder |-> new.id, folders |-> fs \cup {new}]

get_or_create_folder(fs, name, parent) ==
    LET existing == {f \in ChildFolders(fs, parent) : f.name = name}
    IN IF existing # {}
       THEN [folder |-> (CHOOSE f \in existing : TRUE).id, folders |-> fs]
       ELSE LET new == [id |-> parent \o <<name, Cardinality(ChildFolders(fs, parent))>>,
                        name |-> name, parent |-> parent]
            IN [folder |-> new.id, folders |-> fs \cup {new}]

\* lines 82-86: getObjectByPath of the case folder's path; None when not found
get_zaakfolder(zaak_url) ==
    LET bits == upload_to(zaak_url)
        top == {f \in ChildFolders(folders, RootFolder) : f.name = bits[1]}
        leaf == {f \in folders : f.name = bits[2]
                                 /\ \E t \in top : f.parent = t.id}
    IN IF leaf = {} THEN NoFolder ELSE (CHOOSE f \in leaf : TRUE).id

\* lines 114-135
creeer_zaakfolder(zaak_url) ==
    LET bits == upload_to(zaak_url)
        first == get_or_create_folder(folders, bits[1], RootFolder)
        second == get_or_create_folder(first.folders, bits[2], first.folder)
    IN /\ folders' = second.folders
       /\ last' = Ended("creeer_zaakfolder", 0, NoCheckout, "done",
                                "ok", second.folder)
       /\ UNCHANGED <<docs, pwcs, nextObj, nextPwc, records>>
       /\ UNCHANGED syncVars

\* lines 107-112
build_cmis_doc_properties(document, filename) ==
    IF filename = None
    THEN [meta |-> records[document].meta, auteur |-> records[document].auteur]
    ELSE [meta |-> records[document].meta, auteur |-> records[document].auteur,
          name |-> filename]

sender_override_ignored(properties, sender_property, sender) == properties

\* lines 197-198: properties[settings.CMIS_SENDER_PROPERTY] = sender
sender_override(properties, sender_property, sender) ==
    IF sender_property # None
    THEN [properties EXCEPT ![sender_property] = sender]
    ELSE properties

\* _doc.getObjectId(): the object's id and its version label
getObjectId(o) == <<o, "1.0">>

\* rsplit(';')[0]: the part before the first ';'
rsplit_first(object_id) == object_id[1]

saved_object_id_unset(o) == 0

\* lines 204-205: the _object_id create saves on the local record
saved_object_id(o) == rsplit_first(getObjectId(o))

AlreadyExists_never(document) == FALSE

\* lines 182-187: _get_cmis_doc found a document with this identificatie
AlreadyExists(document) ==
    get_cmis_doc(document, NoCheckout).exc # "DocumentDoesNotExistError"

(***************************************************************************)
(* lines 137-206: maak_zaakdocument / maak_zaakdocument_met_inhoud.        *)
(* zaak_url = None files the document in the temporary folder.             *)
(***************************************************************************)
maak_zaakdocument_met_inhoud(document, zaak_url, stream, sender_property, sender) ==
    LET temp == get_or_create_folder(folders, TEMP_FOLDER_NAME, RootFolder)
        zaakfolder == IF zaak_url = None THEN temp.folder
                      ELSE get_zaakfolder(zaak_url)
        properties == sender_override(build_cmis_doc_properties(document, None),
                                      sender_property, sender)
        given == <<sender_property, sender, zaak_url>>
    IN /\ IF AlreadyExists(document)
          THEN /\ last' = Ended("maak_zaakdocument", document, given, "resolve",
                                "DocumentExistsError", None)
               /\ UNCHANGED <<docs, folders, nextObj, records>>
          ELSE IF zaakfolder = NoFolder
          THEN /\ last' = Ended("maak_zaakdocument", document, given, "getObjectByPath",
                                "ObjectNotFoundException", None)
               /\ UNCHANGED <<docs, folders, nextObj, records>>
          ELSE /\ nextObj <= MaxStoreObjs
               /\ docs' = (nextObj :>
                            [identificatie |-> document, objectTypeId |-> edc,
                             parent |-> zaakfolder, content |-> stream,
                             props |-> [meta |-> properties.meta,
                                        auteur |-> properties.auteur,
                                        name |-> "titel"]]) @@ docs
               /\ folders' = IF zaak_url = None THEN temp.folders ELSE folders
               /\ nextObj' = nextObj + 1
               /\ records' = [records EXCEPT
                                ![document].object_id = saved_object_id(nextObj)]
               /\ last' = Ended("maak_zaakdocument", document, given, "done",
                                "ok", None)
       /\ UNCHANGED <<pwcs, nextPwc>>
       /\ UNCHANGED syncVars

CheckoutConflict_never(o) == FALSE

\* lines 275-278: cmis_doc.checkout() raises UpdateConflictException
CheckoutConflict(o) == PrivateWorkingCopies(o) # {}

(***************************************************************************)
(* lines 268-283: checkout. The store refuses a second working copy with   *)
(* UpdateConflictException.                                                *)
(***************************************************************************)
checkout(document) ==
    LET found == get_cmis_doc(document, NoCheckout)
    IN /\ IF found.exc # "ok"
          THEN /\ last' = Ended("checkout", document, NoCheckout, "resolve",
                                found.exc, None)
               /\ UNCHANGED <<pwcs, nextPwc>>
          ELSE IF CheckoutConflict(found.doc)
          THEN /\ last' = Ended("checkout", document, NoCheckout, "checkout",
                                "DocumentLockedException", None)
               /\ UNCHANGED <<pwcs, nextPwc>>
          ELSE /\ nextPwc <= MaxCheckouts
               /\ pwcs' = pwcs \cup
                    {[doc |-> found.doc, id |-> nextPwc, by |-> User]}
               /\ nextPwc' = nextPwc + 1
               /\ last' = Ended("checkout", document, NoCheckout, "done",
                                "ok", <<nextPwc, User>>)
       /\ UNCHANGED <<docs, folders, nextObj, records>>
       /\ UNCHANGED syncVars

\* lines 285-287
cancel_checkout(document, checkout_id) ==
    LET found == get_cmis_doc(document, checkout_id)
    IN /\ IF found.exc # "ok"
          THEN /\ last' = Ended("cancel_checkout", document, checkout_id, "resolve",
                                found.exc, None)
               /\ pwcs' = pwcs
          ELSE /\ pwcs' = pwcs \ PrivateWorkingCopies(found.doc)
               /\ last' = Ended("cancel_checkout", document, checkout_id, "done",
                                "ok", None)
       /\ UNCHANGED <<docs, folders, nextObj, nextPwc, records>>
       /\ UNCHANGED syncVars

(***************************************************************************)
(* What the store may refuse while the document is checked out: the        *)
(* client addresses the document, never its working copy (lines 237 and    *)
(* 242 evaluate getPrivateWorkingCopy() and drop the result).              *)
(***************************************************************************)
Refusals(locked, with_content, with_checkin) ==
    {"none"} \cup
    (IF locked THEN {"updateProperties"} ELSE {}) \cup
    (IF locked /\ with_content THEN {"setContentStream"} ELSE {}) \cup
    (IF locked /\ with_checkin THEN {"checkin"} ELSE {})

\* lines 226-238
zet_inhoud(document, stream, checkout_id) ==
    LET found == get_cmis_doc(document, checkout_id)
        locked == PrivateWorkingCopies(found.doc) # {}
    IN /\ \E refuse \in Refusals(locked, TRUE, FALSE) \ {"updateProperties"} :
          IF found.exc # "ok"
          THEN /\ last' = Ended("zet_inhoud", document, checkout_id, "resolve",
                                found.exc, None)
               /\ docs' = docs
          ELSE IF refuse = "setContentStream"
          THEN /\ last' = Ended("zet_inhoud", document, checkout_id, "setContentStream",
                                "UpdateConflictException", None)
               /\ docs' = docs
          ELSE /\ docs' = [docs EXCEPT ![found.doc].content = stream]
               /\ last' = Ended("zet_inhoud", document, checkout_id, "done",
                                "ok", None)
       /\ UNCHANGED <<pwcs, folders, nextObj, nextPwc, records>>
       /\ UNCHANGED syncVars

geef_inhoud_returns_missing(document) == <<None, "empty">>

\* lines 215-224: (filename, content); "empty" stands for BytesIO()
geef_inhoud_returns(document) ==
    LET found == get_cmis_doc(document, NoCheckout)
        doc == docs[found.doc]
        filename == doc.props.name
        empty == doc.content = "empty"
    IN IF found.exc = "DocumentDoesNotExistError"
       THEN <<None, "empty">>
       ELSE IF empty THEN <<filename, "empty">>
       ELSE <<filename, doc.content>>

\* lines 208-224
geef_inhoud(document) ==
    /\ last' = Ended("geef_inhoud", document, NoCheckout, "done", "ok",
                     geef_inhoud_returns(document))
    /\ UNCHANGED <<docs, pwcs, folders, nextObj, nextPwc, records>>
    /\ UNCHANGED syncVars

update_steps_checkin_first(checkout_id, inhoud) ==
    (IF checkout_id # NoCheckout THEN <<"checkin">> ELSE <<>>)
    \o <<"updateProperties">>
    \o (IF inhoud # None THEN <<"setContentStream">> ELSE <<>>)

\* lines 246-255: the store calls of an update, in the order they are made
update_steps(checkout_id, inhoud) ==
    <<"updateProperties">>
    \o (IF inhoud # None THEN <<"setContentStream">> ELSE <<>>)
    \o (IF checkout_id # NoCheckout THEN <<"checkin">> ELSE <<>>)

\* the calls made before the one the store refuses (all when it refuses none)
StepsDone(steps, refuse) ==
    {steps[i] : i \in {j \in DOMAIN steps : \A k \in 1..j : steps[k] # refuse}}

\* what the call ends with when the store refuses a step (lines 248-249)
Raised(refuse) ==
    CASE refuse = "none" -> "ok"
      [] refuse = "updateProperties" -> "DocumentConflictException"
      [] refuse = "setContentStream" -> "UpdateConflictException"
      [] refuse = "checkin" -> "CmisException"

(***************************************************************************)
(* lines 240-255: update_zaakdocument. inhoud = None: properties only.     *)
(* The content is written through zet_inhoud (line 253), which looks the   *)
(* document up again with the same checkout id.                            *)
(***************************************************************************)
update_zaakdocument(document, checkout_id, inhoud) ==
    LET found == get_cmis_doc(document, checkout_id)
        cmis_doc == found.doc
        locked == PrivateWorkingCopies(cmis_doc) # {}
        current_properties == docs[cmis_doc].props
        new_properties ==
            build_cmis_doc_properties(document,
                                      IF inhoud = None THEN None ELSE "bestand")
        diff_properties ==
            {key \in DOMAIN new_properties :
                current_properties[key] # new_properties[key]}
        updated == [docs EXCEPT ![cmis_doc].props =
                      [key \in DOMAIN @ |->
                         IF key \in diff_properties
                         THEN new_properties[key] ELSE @[key]]]
    IN /\ \E refuse \in Refusals(locked, inhoud # None, checkout_id # NoCheckout) :
          LET done == StepsDone(update_steps(checkout_id, inhoud), refuse)
              with_properties == IF "updateProperties" \in done THEN updated ELSE docs
              written == IF "setContentStream" \in done
                         THEN [with_properties EXCEPT ![cmis_doc].content = inhoud]
                         ELSE with_properties
          IN IF found.exc # "ok"
             THEN /\ last' = Ended("update_zaakdocument", document, checkout_id,
                                   "resolve", found.exc, None)
                  /\ UNCHANGED <<docs, pwcs>>
             ELSE /\ last' = Ended("update_zaakdocument", document, checkout_id,
                                   IF refuse = "none" THEN "done" ELSE refuse,
                                   Raised(refuse), diff_properties)
                  /\ docs' = written
                  /\ pwcs' = IF "checkin" \in done
                             THEN pwcs \ PrivateWorkingCopies(cmis_doc) ELSE pwcs
       /\ UNCHANGED <<folders, nextObj, nextPwc, records>>
       /\ UNCHANGED syncVars

\* the checkout ids a caller passes: none, the ids of the working copies that
\* exist, and an id no working copy has
CheckoutIds == {NoCheckout, nextPwc} \cup {w.id : w \in pwcs}

InitDoc ==
    /\ docs = EmptyDict
    /\ pwcs = {}
    /\ folders = {}
    /\ nextObj = 1
    /\ nextPwc = 1
    /\ last = Ended("none", 0, NoCheckout, "done",
                                "ok", None)
    /\ records = [i \in Idents |-> LocalRecord(0, 0)]
    /\ storeToken = 0
    /\ changes = <<>>
    /\ changesFrom = 0
    /\ ledger = {}
    /\ nextPk = 1
    /\ run = [p \in Callers |-> IdleRun]
    /\ tx = [p \in Callers |-> EmptyTx]

NextDoc ==
    \/ \E z \in ZaakUrls : creeer_zaakfolder(z)
    \/ \E d \in Idents, z \in ZaakUrls \cup {None}, stream \in {"empty", "A"} :
          maak_zaakdocument_met_inhoud(d, z, stream, None, None)
    \/ \E d \in Idents : checkout(d)
    \/ \E d \in Idents, c \in CheckoutIds : cancel_checkout(d, c)
    \/ \E d \in Idents, c \in CheckoutIds, stream \in {"A"} : zet_inhoud(d, stream, c)
    \/ \E d \in Idents, c \in CheckoutIds, inhoud \in {None} :
          update_zaakdocument(d, c, inhoud)
    \/ \E d \in Idents : geef_inhoud(d)

SpecDoc == InitDoc /\ [][NextDoc]_vars

(***************************************************************************)
(* Create and update with the metadata of the local document changing in   *)
(* between, and with settings.CMIS_SENDER_PROPERTY unset or naming the     *)
(* author property.                                                        *)
(***************************************************************************)
MetaValues == {0, 1}
SenderProperties == {None, "auteur"}
Senders == {None, "maykin"}

\* the caller changes the metadata of the document it passes to the client
\* (what document.get_cmis_properties() returns, line 108)
document_changed(document, m) ==
    /\ records[document].meta # m
    /\ records' = [records EXCEPT ![document].meta = m]
    /\ last' = Ended("document_changed", document, NoCheckout, "done", "ok", None)
    /\ UNCHANGED <<docs, pwcs, folders, nextObj, nextPwc>>
    /\ UNCHANGED syncVars

NextMeta ==
    \/ \E d \in Idents, sender_property \in SenderProperties, sender \in Senders :
          maak_zaakdocument_met_inhoud(d, None, "empty", sender_property, sender)
    \/ \E d \in Idents, m \in MetaValues : document_changed(d, m)
    \/ \E d \in Idents : update_zaakdocument(d, NoCheckout, None)

SpecMeta == InitDoc /\ [][NextMeta]_vars

(***************************************************************************)
(* Updates of a checked-out document with and without new content (the     *)
(* content an update writes differs from the content create stored).       *)
(***************************************************************************)
Inhoud == {None, "B"}

NextUpdate ==
    \/ \E d \in Idents : maak_zaakdocument_met_inhoud(d, None, "A", None, None)
    \/ \E d \in Idents : checkout(d)
    \/ \E d \in Idents, c \in CheckoutIds, inhoud \in Inhoud :
          update_zaakdocument(d, c, inhoud)

SpecUpdate == InitDoc /\ [][NextUpdate]_vars

(***************************************************************************)
(* The document's place in the folders: linking it to a case, unlinking it *)
(* (a move to the trash folder) and deleting it.  The documents here are   *)
(* not checked out.                                                        *)
(***************************************************************************)
TRASH_FOLDER == "Unfiled"

\* cmis_doc.getObjectParents(), line 265: the folders the document is filed in
getObjectParents(o) == {docs[o].parent}

move_nowhere(ds, o, targetFolder) == ds

move_to_root(ds, o, targetFolder) == [ds EXCEPT ![o].parent = RootFolder]

\* cmis_doc.move(sourceFolder, targetFolder), lines 266 and 293: the document
\* leaves the source folder and is filed in the target folder
move(ds, o, targetFolder) == [ds EXCEPT ![o].parent = targetFolder]

\* the store refuses a move (CMIS moveObject, invalidArgument) whose source
\* folder is not a parent of the document
MoveRefused(o, sourceFolder) == sourceFolder \notin getObjectParents(o)

\* lines 257-266
relateer_aan_zaak(document, zaak_url) ==
    LET found == get_cmis_doc(document, NoCheckout)
        cmis_doc == found.doc
        zaakfolder == get_zaakfolder(zaak_url)
        parent == CHOOSE f \in getObjectParents(cmis_doc) : TRUE
    IN /\ IF found.exc # "ok"
          THEN /\ last' = Ended("relateer_aan_zaak", document, zaak_url, "resolve",
                                found.exc, None)
               /\ docs' = docs
          ELSE IF zaakfolder = NoFolder
          THEN /\ last' = Ended("relateer_aan_zaak", document, zaak_url,
                                "getObjectByPath", "ObjectNotFoundException", None)
               /\ docs' = docs
          ELSE IF MoveRefused(cmis_doc, parent)
          THEN /\ last' = Ended("relateer_aan_zaak", document, zaak_url, "move",
                                "InvalidArgumentException", None)
               /\ docs' = docs
          ELSE /\ docs' = move(docs, cmis_doc, zaakfolder)
               /\ last' = Ended("relateer_aan_zaak", document, zaak_url, "done",
                                "ok", None)
       /\ UNCHANGED <<pwcs, folders, nextObj, nextPwc, records>>
       /\ UNCHANGED syncVars

\* lines 289-293: the trash folder is made before the move is asked for
ontkoppel_zaakdocument(document, zaak_url) ==
    LET found == get_cmis_doc(document, NoCheckout)
        cmis_doc == found.doc
        cmis_folder == get_zaakfolder(zaak_url)
        trash == get_or_create_folder(folders, TRASH_FOLDER, RootFolder)
    IN /\ IF found.exc # "ok"
          THEN /\ last' = Ended("ontkoppel_zaakdocument", document, zaak_url, "resolve",
                                found.exc, None)
               /\ UNCHANGED <<docs, folders>>
          ELSE IF cmis_folder = NoFolder
          THEN /\ last' = Ended("ontkoppel_zaakdocument", document, zaak_url,
                                "getObjectByPath", "ObjectNotFoundException", None)
               /\ UNCHANGED <<docs, folders>>
          ELSE IF MoveRefused(cmis_doc, cmis_folder)
          THEN /\ last' = Ended("ontkoppel_zaakdocument", document, zaak_url, "move",
                                "InvalidArgumentException", None)
               /\ docs' = docs
               /\ folders' = trash.folders
          ELSE /\ docs' = move(docs, cmis_doc, trash.folder)
               /\ folders' = trash.folders
               /\ last' = Ended("ontkoppel_zaakdocument", document, zaak_url, "done",
                                "ok", None)
       /\ UNCHANGED <<pwcs, nextObj, nextPwc, records>>
       /\ UNCHANGED syncVars

delete_keeps(ds, o) == ds

\* cmis_doc.delete(), line 302: the object leaves the store
delete(ds, o) == [x \in DOMAIN ds \ {o} |-> ds[x]]

\* lines 300-302
verwijder_document(document) ==
    LET found == get_cmis_doc(document, NoCheckout)
        cmis_doc == found.doc
    IN /\ IF found.exc # "ok"
          THEN /\ last' = Ended("verwijder_document", document, NoCheckout, "resolve",
                                found.exc, None)
               /\ UNCHANGED <<docs, pwcs>>
          ELSE /\ docs' = delete(docs, cmis_doc)
               /\ pwcs' = pwcs \ PrivateWorkingCopies(cmis_doc)
               /\ last' = Ended("verwijder_document", document, NoCheckout, "done",
                                "ok", None)
       /\ UNCHANGED <<folders, nextObj, nextPwc, records>>
       /\ UNCHANGED syncVars

NextLife ==
    \/ \E z \in ZaakUrls : creeer_zaakfolder(z)
    \/ \E d \in Idents, z \in ZaakUrls \cup {None}, stream \in {"A"} :
          maak_zaakdocument_met_inhoud(d, z, stream, None, None)
    \/ \E d \in Idents, z \in ZaakUrls : relateer_aan_zaak(d, z)
    \/ \E d \in Idents, z \in ZaakUrls : ontkoppel_zaakdocument(d, z)
    \/ \E d \in Idents : verwijder_document(d)
    \/ \E d \in Idents : geef_inhoud(d)

SpecLife == InitDoc /\ [][NextLife]_vars

(***************************************************************************)
(* Two callers whose sync calls interleave.                                *)
(***************************************************************************)
InitConc == InitSyncWith(SeqsUpTo(SyncEntries, MaxConcLog))

NextConc == \E p \in Callers : sync(p)

SpecConc == InitConc /\ [][NextConc]_vars

(***************************************************************************)
(* A sync call that is interrupted: the process dies or an exception        *)
(* leaves the function. The call runs inside transaction.atomic (line 304), *)
(* so everything it wrote since line 346, its run row included, is         *)
(* discarded.                                                              *)
(***************************************************************************)
sync_interrupted(p) ==
    /\ run[p].pc # "idle"
    /\ tx' = [tx EXCEPT ![p] = EmptyTx]
    /\ run' = [run EXCEPT ![p] = Returned(run[p], "interrupted", "interrupted")]
    /\ UNCHANGED <<storeToken, changes, changesFrom, ledger, nextPk, records>>
    /\ UNCHANGED docVars

NextCrash == \E p \in Callers : sync(p) \/ sync_interrupted(p)

SpecCrash == InitConc /\ [][NextCrash]_vars

(***************************************************************************)
(* The reconciliation scenario of the spec's testable properties: a window *)
(* of seven entries on seven distinct documents, taken in any rotation.    *)
(* Documents 1, 2, 6, 7 and 8 are in the store; local records exist for 1  *)
(* and 3.                                                                  *)
(***************************************************************************)
ScenarioDocs ==
    (1 :> StoreDoc(1, edc)) @@ (2 :> StoreDoc(2, edc)) @@ (6 :> StoreDoc(6, edc))
    @@ (7 :> StoreDoc(7, edc)) @@ (8 :> StoreDoc(8, edc))

Entry(o, t) == [objectId |-> o, changeType |-> t]

ScenarioWindow ==
    <<Entry(2, "created"), Entry(1, "updated"), Entry(6, "updated"),
      Entry(3, "deleted"), Entry(4, "deleted"), Entry(7, "security"),
      Entry(8, "other")>>

Rotated(w, k) == [i \in 1..Len(w) |-> w[((i + k - 1) % Len(w)) + 1]]

InitScenario ==
    /\ \E k \in 0..(Len(ScenarioWindow) - 1) : changes = Rotated(ScenarioWindow, k)
    /\ changesFrom = 0
    /\ storeToken = Len(changes)
    /\ ledger = {}
    /\ nextPk = 1
    /\ records = SyncRecords
    /\ docs = ScenarioDocs
    /\ run = [p \in Callers |-> IdleRun]
    /\ tx = [p \in Callers |-> EmptyTx]
    /\ InitDocsIdle

SpecScenario == InitScenario /\ [][Next]_vars

(***************************************************************************)
(* Properties.                                                             *)
(***************************************************************************)
InProgressRows(rows) == {r \in rows : r.status = in_progress}
CompletedRows(rows) == {r \in rows : r.status = completed}

Ran(p) == run[p].pc = "idle" /\ run[p].result.kind # "none"

NumOutcomes(outcomes, which) ==
    Cardinality({i \in DOMAIN outcomes : outcomes[i] \in which})

\* C1: a non-dry sync run that passed the in_progress check with a positive
\* window ends with its own run row completed at the store token it read and
\* returns the five counters.
C1_RunCompletes ==
    \A p \in Callers :
        (Ran(p) /\ ~run[p].dryrun /\ run[p].max_items > 0)
        => /\ run[p].result.kind = "dict"
           /\ DOMAIN run[p].result.value = CounterKeys
           /\ \E r \in ledger : /\ Row(r.pk) = run[p].own
                                /\ r.status = completed
                                /\ r.token = run[p].token

\* C2: a sync run that created its row while an older row of another run is
\* in_progress does not get past its check (it raises SyncException), and the
\* row of a run that raised it is not in the ledger.
C2_LaterRunConflicts ==
    \A p \in Callers :
        /\ \A q \in Callers \ {p} : \A r \in InProgressRows(ledger \cup tx[q].rows) :
              (run[p].pc # "idle" /\ run[p].own # NoRow /\ Row(r.pk) # run[p].own
               /\ r.pk < run[p].own[1])
              => run[p].pc = "check"
        /\ (Ran(p) /\ run[p].result.kind = "SyncException")
              => \A r \in ledger : Row(r.pk) # run[p].own

\* C3: the committed run ledger never holds more than one in_progress row.
C3_OneInProgress == Cardinality(InProgressRows(ledger)) <= 1

\* C4: no two store documents share an identificatie; a create for an
\* identificatie the store already holds ends with DocumentExistsError and
\* leaves the store as it was; after a create that succeeded or was refused
\* so, the store holds exactly one document with that identificatie.
C4_Unique ==
    /\ \A i \in Idents :
          Cardinality({o \in DOMAIN docs : docs[o].identificatie = i}) <= 1
    /\ (last.op = "maak_zaakdocument" /\ last.result \in {"ok", "DocumentExistsError"})
          => Cardinality({o \in DOMAIN docs : docs[o].identificatie = last.doc}) = 1

C4_RefusedCreateWritesNothing ==
    (/\ last'.op = "maak_zaakdocument"
     /\ \E o \in DOMAIN docs : docs[o].identificatie = last'.doc)
    => /\ last'.result = "DocumentExistsError"
       /\ UNCHANGED <<docs, pwcs, folders, records>>

C4_CreateOnce == []C4_Unique /\ [][C4_RefusedCreateWritesNothing]_vars

C4_Witness ==
    /\ last.op = "maak_zaakdocument"
    /\ last.result = "DocumentExistsError"
    /\ Cardinality({o \in DOMAIN docs : docs[o].identificatie = last.doc}) = 1

\* C5: a document never has two working copies; a checkout of a document
\* that has one ends with DocumentLockedException and leaves the working
\* copies (id and holder) as they were.
C5_AtMostOne ==
    \A o \in DOMAIN docs : Cardinality({w \in pwcs : w.doc = o}) <= 1

C5_SecondCheckoutRefused ==
    (/\ last'.op = "checkout"
     /\ \E o \in DOMAIN docs : /\ docs[o].identificatie = last'.doc
                              /\ \E w \in pwcs : w.doc = o)
    => /\ last'.result = "DocumentLockedException"
       /\ pwcs' = pwcs

C5_OneLock == []C5_AtMostOne /\ [][C5_SecondCheckoutRefused]_vars

C5_Witness ==
    /\ last.op = "checkout"
    /\ last.result = "DocumentLockedException"
    /\ \E w \in pwcs : docs[w.doc].identificatie = last.doc

\* C6: after cancel_checkout or update_zaakdocument called with the checkout
\* id of the document's working copy, the document is not locked.
C6_Unlocked ==
    (/\ last.op \in {"cancel_checkout", "update_zaakdocument"}
     /\ last.arg # NoCheckout
     /\ last.stage # "resolve")
    => ~is_locked(last.doc)

\* C7: a non-dry run over the seven-entry window, none of whose entries
\* raised, returns created 1, updated 1, deleted 1, security 1, failed 2.
C7_Counters ==
    \A p \in Callers :
        (/\ Ran(p) /\ ~run[p].dryrun /\ run[p].max_items = Len(ScenarioWindow)
         /\ NumOutcomes(run[p].outcomes, {"exception"}) = 0)
        => /\ run[p].result.kind = "dict"
           /\ run[p].result.value =
                [created |-> 1, updated |-> 1, deleted |-> 1, security |-> 1,
                 failed |-> 2]

\* C8: an entry whose processing raises is counted as failed and the loop
\* goes on: the entries are taken one by one in order, a run ends only after
\* every entry of its window was taken, and the failed counter is the number
\* of entries that failed.
C8_EntryErrorsIsolated ==
    \A p \in Callers :
        LET r == run[p]
        IN /\ r.pc \in {"loop", "finish"} => Len(r.outcomes) = r.idx - 1
           /\ r.pc = "loop" => r.idx <= Len(r.window)
           /\ (r.pc = "finish" \/ (r.pc = "idle" /\ r.outcomes # <<>>))
                 => Len(r.outcomes) = Len(r.window)
           /\ r.counts.failed =
                 NumOutcomes(r.outcomes, {"exception", "not in store", "no record",
                                          "unsupported"})

C8_Witness ==
    \E p \in Callers :
        /\ run[p].pc = "finish"
        /\ Len(run[p].outcomes) >= 2
        /\ run[p].outcomes[1] = "exception"
        /\ run[p].outcomes[Len(run[p].outcomes)] \in {"created", "updated", "deleted"}

\* C9: a sync call that ran with a window size of zero returned a mapping in
\* which each of the counters created, updated, deleted, security, failed is 0
\* and made no getContentChanges call.
LastCompletedToken ==
    IF CompletedRows(ledger) = {} THEN 0
    ELSE (CHOOSE r \in CompletedRows(ledger) :
            r.pk = Max({q.pk : q \in CompletedRows(ledger)})).token

C9_ZeroWindow ==
    \A p \in Callers :
        (/\ Ran(p) /\ run[p].result.kind # "SyncException"
         /\ run[p].token - LastCompletedToken = 0)
        => /\ run[p].result.kind = "dict"
           /\ \A k \in CounterKeys : /\ k \in DOMAIN run[p].result.value
                                     /\ run[p].result.value[k] = 0
           /\ run[p].getChanges = <<>>

\* C10: a step of a sync(dryrun=True) call changes neither the run ledger nor
\* the local document records, committed or pending, and creates no run row.
C10_DryRunStep ==
    \A p \in Callers :
        (run'[p].dryrun /\ run'[p] # run[p])
        => UNCHANGED <<ledger, records, tx, nextPk>>

C10_DryRunFrame == [][C10_DryRunStep]_vars

C10_Witness ==
    \E p \in Callers :
        /\ Ran(p) /\ run[p].dryrun
        /\ run[p].token - LastCompletedToken > 0
        /\ ledger # {}

\* C11: a sync(dryrun=True) call over a positive window returns the five
\* counters, and they are the counters a non-dry call that read the same
\* token has when it reaches its completion step over that window (no entry
\* of which raised).
C11_DryRunCounts ==
    \A p \in Callers :
        (/\ Ran(p) /\ run[p].dryrun
         /\ run[p].token - LastCompletedToken > 0)
        => /\ run[p].result.kind = "dict"
           /\ DOMAIN run[p].result.value = CounterKeys
           /\ \A q \in Callers \ {p} :
                 (/\ run[q].pc = "finish" /\ ~run[q].dryrun
                  /\ run[q].token = run[p].token
                  /\ NumOutcomes(run[q].outcomes, {"exception"}) = 0)
                 => run[p].result.value = run[q].counts

\* C12: a non-dry sync call that read a store token lower than the token of
\* the last completed run ends with SyncException, has made no
\* getContentChanges call, and the step that ends it leaves the committed
\* ledger and local records as they were and keeps none of its writes: no
\* row of the call is in the ledger.
C12_Negative(p) ==
    /\ Ran(p) /\ ~run[p].dryrun
    /\ run[p].token < LastCompletedToken

C12_Aborted ==
    \A p \in Callers :
        C12_Negative(p)
        => /\ run[p].result.kind = "SyncException"
           /\ run[p].getChanges = <<>>
           /\ tx[p] = EmptyTx
           /\ \A r \in ledger : Row(r.pk) # run[p].own

C12_AbortStep ==
    \A p \in Callers :
        (~run[p].dryrun /\ run[p].pc # "idle" /\ run[p].token < LastCompletedToken)
        => UNCHANGED <<ledger, records>>

C12_NothingPartial == []C12_Aborted /\ [][C12_AbortStep]_vars

C12_Witness ==
    \E p \in Callers :
        /\ C12_Negative(p)
        /\ run[p].own # NoRow
        /\ run[p].result.value = "older than our records"

\* C13: after a non-dry sync call was interrupted between the creation of
\* its run row and its completion, the local records are as they were, the
\* row of the call is in the ledger with status in_progress, and every
\* non-dry call started later ends with SyncException.
C13_CrashBlocks ==
    \A p \in Callers :
        (/\ Ran(p) /\ run[p].result.kind = "interrupted"
         /\ ~run[p].dryrun /\ run[p].own # NoRow)
        => /\ records = SyncRecords
           /\ \E r \in ledger : Row(r.pk) = run[p].own /\ r.status = in_progress
           /\ \A q \in Callers \ {p} :
                 (/\ Ran(q) /\ ~run[q].dryrun /\ run[q].own # NoRow
                  /\ run[q].own[1] > run[p].own[1])
                 => run[q].result.kind = "SyncException"

C15_Read ==
    /\ last.op = "geef_inhoud"
          => /\ last.result = "ok"
             /\ IF QueryResult(last.doc) = {}
                THEN last.ret = <<None, "empty">>
                ELSE \E o \in QueryResult(last.doc) :
                        /\ last.ret = <<docs[o].props.name, docs[o].content>>
                        /\ last.ret[1] # None
    /\ (last.op = "zet_inhoud" /\ last.result = "ok")
          => \E o \in QueryResult(last.doc) :
                geef_inhoud_returns(last.doc) = <<docs[o].props.name, "A">>

C15_Witness ==
    /\ last.op = "geef_inhoud"
    /\ last.ret[2] = "A"
    /\ \E d \in Idents : QueryResult(d) = {}

\* C16: no folder of the store has two children with the same name; a
\* creeer_zaakfolder call returns the leaf folder of the case's path; once
\* that folder exists, every later call returns that same folder and leaves
\* the folders as they were, and no other operation changes which folder the
\* path leads to.
C16_NoDuplicateChild ==
    /\ \A f, g \in folders : (f.parent = g.parent /\ f.name = g.name) => f = g
    /\ last.op = "creeer_zaakfolder"
          => /\ last.ret # NoFolder
             /\ \E z \in ZaakUrls : last.ret = get_zaakfolder(z)

C16_SameLeaf ==
    \A z \in ZaakUrls :
        get_zaakfolder(z) # NoFolder
        => /\ get_zaakfolder(z)' = get_zaakfolder(z)
           /\ last'.op = "creeer_zaakfolder"
                 => (folders' = folders /\ last'.ret = get_zaakfolder(z))

C16_Idempotent == []C16_NoDuplicateChild /\ [][C16_SameLeaf]_vars

C16_Witness ==
    /\ last.op = "creeer_zaakfolder"
    /\ Cardinality(folders) = 3
    /\ \E o \in DOMAIN docs : docs[o].parent = last.ret

\* C17: an update_zaakdocument call without new content that directly
\* follows a create or an update of the same document that succeeded (the
\* local metadata has not changed in between) sends an empty property diff.
C17_UnchangedStep ==
    (/\ last.op \in {"maak_zaakdocument", "update_zaakdocument"}
     /\ last.result = "ok"
     /\ last'.op = "update_zaakdocument"
     /\ last'.doc = last.doc
     /\ records' = records)
    => last'.ret = {}

C17_EmptyDiff == [][C17_UnchangedStep]_vars

\* C18: a zet_inhoud, update_zaakdocument or cancel_checkout call that is
\* given a checkout id for a document of the store gets past the lookup of
\* the document only if the document has a working copy with that id;
\* otherwise it ends there with DocumentConflictException and leaves the
\* store's documents (content and properties) and working copies as they
\* were.
C18_Step ==
    (/\ last'.op \in {"zet_inhoud", "update_zaakdocument", "cancel_checkout"}
     /\ last'.arg # NoCheckout
     /\ QueryResult(last'.doc) # {})
    => IF \E w \in pwcs : /\ w.id = last'.arg
                          /\ docs[w.doc].identificatie = last'.doc
       THEN last'.stage # "resolve"
       ELSE /\ last'.result = "DocumentConflictException"
            /\ last'.stage = "resolve"
            /\ UNCHANGED <<docs, pwcs>>

C18_LockOwnership == [][C18_Step]_vars

C18_Witness ==
    /\ last.op \in {"zet_inhoud", "update_zaakdocument", "cancel_checkout"}
    /\ last.arg # NoCheckout
    /\ last.result = "DocumentConflictException"
    /\ last.stage = "resolve"
    /\ is_locked(last.doc)

\* C19: a create that succeeds with a sender property configured stores the
\* sender it was given as the store value of that property, in place of the
\* value derived from the document's metadata; with no sender property
\* configured it stores the value derived from the metadata; either way the
\* fields of the local record the properties are derived from are unchanged.
C19_Step ==
    (/\ last'.op = "maak_zaakdocument"
     /\ last'.result = "ok"
     /\ DOMAIN docs' # DOMAIN docs)
    => \E o \in DOMAIN docs' \ DOMAIN docs :
          /\ docs'[o].identificatie = last'.doc
          /\ docs'[o].props.auteur =
                IF last'.arg[1] # None THEN last'.arg[2]
                ELSE records[last'.doc].auteur
          /\ docs'[o].props.meta = records[last'.doc].meta
          /\ records'[last'.doc].auteur = records[last'.doc].auteur
          /\ records'[last'.doc].meta = records[last'.doc].meta

C19_SenderOverride == [][C19_Step]_vars

C19_Witness ==
    /\ last.op = "maak_zaakdocument"
    /\ last.result = "ok"
    /\ last.arg[1] = "auteur"
    /\ last.arg[2] = "maykin"
    /\ \E o \in QueryResult(last.doc) : docs[o].props.auteur = "maykin"
    /\ records[last.doc].auteur = "auteur"

\* C20: the _object_id of a local document is unset exactly as long as the
\* store holds no object for it and is otherwise the id of its store
\* object, without the version label; a create that succeeds sets it to
\* the id of the object it created and a create that fails leaves the local
\* records unchanged.
C20_ObjectId ==
    \A d \in Idents :
        IF QueryResult(d) = {}
        THEN records[d].object_id = 0
        ELSE records[d].object_id \in QueryResult(d)

C20_Step ==
    last'.op = "maak_zaakdocument"
    => IF last'.result = "ok" /\ DOMAIN docs' # DOMAIN docs
       THEN /\ records[last'.doc].object_id = 0
            /\ records'[last'.doc].object_id \in DOMAIN docs' \ DOMAIN docs
            /\ \A d \in Idents \ {last'.doc} : records'[d] = records[d]
       ELSE records' = records

C20_StoreObjectId == []C20_ObjectId /\ [][C20_Step]_vars

C20_Witness ==
    /\ last.op = "maak_zaakdocument"
    /\ last.result = "ObjectNotFoundException"
    /\ records[last.doc].object_id = 0
    /\ \E d \in Idents : records[d].object_id # 0

\* folder.getChildren(): the documents filed in a folder
FolderContents(ds, f) == {o \in DOMAIN ds : ds[o].parent = f}

\* the trash folder: the child of the root folder named TRASH_FOLDER
TrashFolders(fs) ==
    {f.id : f \in {g \in ChildFolders(fs, RootFolder) : g.name = TRASH_FOLDER}}

\* C21: an ontkoppel_zaakdocument call on a document filed in the case
\* folder succeeds; after a call that succeeded, the document's store object
\* is no longer among the children of the case folder, it is among the
\* children of the trash folder, the query by identificatie still finds it,
\* and geef_inhoud returns the same name and content as before.
C21_Unlinked(document, zaak_url) ==
    /\ (\E o \in QueryResult(document) :
           /\ get_zaakfolder(zaak_url) # NoFolder
           /\ o \in FolderContents(docs, get_zaakfolder(zaak_url)))
       => last'.result = "ok"
    /\ last'.result = "ok"
       => /\ QueryResult(document) # {}
          /\ QueryResult(document)' = QueryResult(document)
          /\ geef_inhoud_returns(document)' = geef_inhoud_returns(document)
          /\ geef_inhoud_returns(document)[1] # None
          /\ \A o \in QueryResult(document) :
                /\ o \in FolderContents(docs, get_zaakfolder(zaak_url))
                /\ o \notin FolderContents(docs', get_zaakfolder(zaak_url))
                /\ TrashFolders(folders') # {}
                /\ \A t \in TrashFolders(folders') : o \in FolderContents(docs', t)

C21_Step ==
    \A d \in Idents, z \in ZaakUrls :
        (last'.op = "ontkoppel_zaakdocument" /\ last'.doc = d /\ last'.arg = z)
        => C21_Unlinked(d, z)

C21_SoftDelete == [][C21_Step]_vars

C21_Witness ==
    /\ last.op = "ontkoppel_zaakdocument"
    /\ last.result = "ok"
    /\ FolderContents(docs, get_zaakfolder(last.arg)) = {}
    /\ \E t \in TrashFolders(folders) : FolderContents(docs, t) = QueryResult(last.doc)
    /\ geef_inhoud_returns(last.doc)[2] = "A"

\* the temporary folder: the child of the root folder named TEMP_FOLDER_NAME
TempFolders(fs) ==
    {f.id : f \in {g \in ChildFolders(fs, RootFolder) : g.name = TEMP_FOLDER_NAME}}

\* C22: a relateer_aan_zaak call for a document filed in the temporary
\* folder succeeds when the case folder exists; after a call that succeeded
\* the document's parents are the resolved case folder and nothing else: it
\* is a child of no other folder of the store, the temporary folder
\* included.
C22_Linked(document, zaak_url) ==
    /\ (/\ get_zaakfolder(zaak_url) # NoFolder
        /\ \E o \in QueryResult(document), t \in TempFolders(folders) :
              o \in FolderContents(docs, t))
       => last'.result = "ok"
    /\ last'.result = "ok"
       => /\ QueryResult(document) # {}
          /\ QueryResult(document)' = QueryResult(document)
          /\ get_zaakfolder(zaak_url) # NoFolder
          /\ \A o \in QueryResult(document) :
                /\ getObjectParents(o)' = {get_zaakfolder(zaak_url)}
                /\ \A t \in TempFolders(folders') : o \notin FolderContents(docs', t)
                /\ Cardinality({f \in folders' : o \in FolderContents(docs', f.id)}) = 1

C22_Step ==
    \A d \in Idents, z \in ZaakUrls :
        (last'.op = "relateer_aan_zaak" /\ last'.doc = d /\ last'.arg = z)
        => C22_Linked(d, z)

C22_OneParent == [][C22_Step]_vars

C22_Witness ==
    /\ last.op = "relateer_aan_zaak"
    /\ last.result = "ok"
    /\ \E t \in TempFolders(folders) : FolderContents(docs, t) = {}
    /\ FolderContents(docs, get_zaakfolder(last.arg)) = QueryResult(last.doc)
    /\ nextObj = 2

\* C23: a verwijder_document call on a document the store holds succeeds;
\* after a call that succeeded the document's store object is gone from the
\* store: it is a child of no folder (case folder and trash folder included),
\* the query by identificatie finds nothing, geef_inhoud returns (None,
\* empty), and the other store objects are as they were.
C23_Deleted(document) ==
    /\ QueryResult(document) # {} => last'.result = "ok"
    /\ last'.result = "ok"
       => /\ QueryResult(document) # {}
          /\ QueryResult(document)' = {}
          /\ DOMAIN docs' = DOMAIN docs \ QueryResult(document)
          /\ \A o \in DOMAIN docs' : docs'[o] = docs[o]
          /\ \A o \in QueryResult(document), f \in folders' :
                o \notin FolderContents(docs', f.id)
          /\ geef_inhoud_returns(document)' = <<None, "empty">>

C23_Step ==
    \A d \in Idents :
        (last'.op = "verwijder_document" /\ last'.doc = d) => C23_Deleted(d)

C23_Gone ==
    (last.op = "verwijder_document" /\ last.result = "ok")
    => /\ QueryResult(last.doc) = {}
       /\ geef_inhoud_returns(last.doc) = <<None, "empty">>

C23_HardDelete == []C23_Gone /\ [][C23_Step]_vars

C23_Witness ==
    /\ last.op = "verwijder_document"
    /\ last.result = "ok"
    /\ TrashFolders(folders) # {}
    /\ get_zaakfolder("z1") # NoFolder
    /\ DOMAIN docs = {}
    /\ nextObj = 2

\* C24: an update_zaakdocument call given the checkout id of the document's
\* working copy updates the properties first, writes the content next and
\* checks in last: the lock is released only by a call that ended normally,
\* with every property of the diff and the content (when content was given)
\* written; content is written only after the properties were; a call the
\* store refused at the check-in has written both and holds the lock; and a
\* call that ends with DocumentConflictException at the property update
\* leaves the store's documents as they were and the lock held.
C24_Updated(document) ==
    \A o \in QueryResult(document) :
        LET new == docs'[o]
            with_content == "name" \in last'.ret
            properties_written ==
                /\ new.props.meta = records[document].meta
                /\ new.props.auteur = records[document].auteur
                /\ with_content => new.props.name = "bestand"
        IN /\ pwcs' # pwcs => /\ last'.stage = "done"
                              /\ pwcs' = pwcs \ PrivateWorkingCopies(o)
           /\ last'.stage = "done" => /\ last'.result = "ok"
                                      /\ PrivateWorkingCopies(o)' = {}
           /\ last'.stage \in {"done", "checkin"}
                 => /\ properties_written
                    /\ with_content => new.content = "B"
           /\ new.content # docs[o].content => properties_written
           /\ last'.stage = "setContentStream"
                 => /\ properties_written
                    /\ new.content = docs[o].content
           /\ last'.stage = "updateProperties"
                 => /\ last'.result = "DocumentConflictException"
                    /\ docs' = docs
                    /\ pwcs' = pwcs
                    /\ PrivateWorkingCopies(o)' # {}
           /\ last'.result = "DocumentConflictException"
                 => last'.stage = "updateProperties"

C24_Step ==
    \A d \in Idents :
        (/\ last'.op = "update_zaakdocument" /\ last'.doc = d
         /\ last'.arg # NoCheckout /\ last'.stage # "resolve")
        => C24_Updated(d)

C24_UpdateOrder == [][C24_Step]_vars

C24_Witness ==
    /\ last.op = "update_zaakdocument"
    /\ last.arg # NoCheckout
    /\ last.stage = "updateProperties"
    /\ last.result = "DocumentConflictException"
    /\ last.ret = {"name"}
    /\ is_locked(last.doc)
    /\ \A o \in QueryResult(last.doc) : docs[o].content = "A"
    /\ \E o \in DOMAIN docs : docs[o].content = "B" /\ PrivateWorkingCopies(o) = {}

\* C25: the step of a sync run that takes a change entry of type security
\* whose (object id, change type) pair the run has not seen before adds one
\* to the security counter, leaves the other four counters as they were, and
\* changes no local document record, committed or pending.
C25_Step ==
    \A p \in Callers :
        LET r == run[p]
        IN (/\ r.pc = "loop"
            /\ run'[p] # r
            /\ r.window[r.idx].changeType = "security"
            /\ cache_key(r.window[r.idx].objectId, "security") \notin r.cache)
           => /\ run'[p].counts = Count(r.counts, "security")
              /\ tx'[p] = tx[p]
              /\ records' = records

C25_SecurityCounted == [][C25_Step]_vars

\* C26: within a sync run an entry is skipped exactly when an earlier entry
\* of the run's window has the same object id and change type (so the first
\* entry of a pair is dispatched, and entries for one object with different
\* change types are each dispatched); the step that skips an entry changes
\* no counter and no local record, committed or pending; and the five
\* counters together never exceed the number of distinct pairs taken.
SumOfCounters(c) == c.created + c.updated + c.deleted + c.security + c.failed

PairsTaken(r) ==
    {<<r.window[i].objectId, r.window[i].changeType>> : i \in DOMAIN r.outcomes}

C26_Deduplicated ==
    \A p \in Callers :
        LET r == run[p]
        IN /\ \A i \in DOMAIN r.outcomes :
                 r.outcomes[i] = "skipped"
                 <=> \E j \in 1..(i - 1) : r.window[j] = r.window[i]
           /\ SumOfCounters(r.counts) <= Cardinality(PairsTaken(r))
           /\ Cardinality(r.cache) = Cardinality(PairsTaken(r))

C26_SkipStep ==
    \A p \in Callers :
        LET r == run[p]
        IN (/\ r.pc = "loop"
            /\ run'[p] # r
            /\ \E j \in 1..(r.idx - 1) : r.window[j] = r.window[r.idx])
           => /\ run'[p].counts = r.counts
              /\ run'[p].cache = r.cache
              /\ run'[p].idx = r.idx + 1
              /\ tx'[p] = tx[p]
              /\ records' = records

C26_Dedup == []C26_Deduplicated /\ [][C26_SkipStep]_vars

C26_Witness ==
    \E p \in Callers :
        /\ run[p].pc = "finish"
        /\ run[p].outcomes = <<"updated", "skipped">>
        /\ run[p].counts.updated = 1
        /\ SumOfCounters(run[p].counts) = 1

\* C27: a create with a case reference whose folder the store does not hold
\* yet, for an identificatie the store does not hold either, succeeds:
\* afterwards the case folder exists and the new document is filed in it.
C27_Step ==
    \A d \in Idents, z \in ZaakUrls :
        (/\ last'.op = "maak_zaakdocument" /\ last'.doc = d /\ last'.arg[3] = z
         /\ ~AlreadyExists(d)
         /\ get_zaakfolder(z) = NoFolder)
        => /\ last'.result = "ok"
           /\ get_zaakfolder(z)' # NoFolder
           /\ \E o \in DOMAIN docs' \ DOMAIN docs :
                 /\ docs'[o].identificatie = d
                 /\ docs'[o].parent = get_zaakfolder(z)'

C27_FolderOnFirstReference == [][C27_Step]_vars

\* C28: when sync calls run one after another and none is interrupted, a
\* call that returned normally has left no in_progress row in the committed
\* ledger, and no call ends with SyncException "already running".
C28_NoStaleRun ==
    \A p \in Callers :
        Ran(p)
        => /\ run[p].result.kind \in {"dict", "None"}
                 => InProgressRows(ledger) = {}
           /\ run[p].result.kind = "SyncException"
                 => run[p].result.value # "already running"

\* C29: a create is refused with DocumentExistsError exactly when the store
\* holds an object with the document's identificatie, in whatever folder,
\* and a refused create changes no store object; a create for an
\* identificatie the store does not hold, whose target folder can be
\* resolved, succeeds and stores one object.  So the create that follows an
\* ontkoppel_zaakdocument of the same document is refused (the object is in
\* the trash folder), and the create that follows its verwijder_document is
\* not refused so and succeeds when its target folder can be resolved.
StoreObjects(ds, document) == {o \in DOMAIN ds : ds[o].identificatie = document}

C29_Create(document, zaak_url) ==
    /\ last'.result = "DocumentExistsError" <=> StoreObjects(docs, document) # {}
    /\ last'.result = "DocumentExistsError" => docs' = docs
    /\ (/\ StoreObjects(docs, document) = {}
        /\ (zaak_url = None \/ get_zaakfolder(zaak_url) # NoFolder))
       => /\ last'.result = "ok"
          /\ Cardinality(StoreObjects(docs', document)) = 1
    /\ (/\ last.op = "ontkoppel_zaakdocument" /\ last.result = "ok"
        /\ last.doc = document)
       => /\ last'.result = "DocumentExistsError"
          /\ \E o \in StoreObjects(docs, document), t \in TrashFolders(folders) :
                o \in FolderContents(docs, t)
    /\ (/\ last.op = "verwijder_document" /\ last.result = "ok"
        /\ last.doc = document)
       => /\ last'.result # "DocumentExistsError"
          /\ (zaak_url = None \/ get_zaakfolder(zaak_url) # NoFolder)
                => last'.result = "ok"

C29_Step ==
    \A d \in Idents, z \in ZaakUrls \cup {None} :
        (last'.op = "maak_zaakdocument" /\ last'.doc = d /\ last'.arg[3] = z)
        => C29_Create(d, z)

C29_Occupied == [][C29_Step]_vars

C29_Witness ==
    /\ last.op = "maak_zaakdocument"
    /\ last.result = "ok"
    /\ TrashFolders(folders) # {}
    /\ nextObj = 3
    /\ DOMAIN docs = {2}
    /\ docs[2].identificatie = last.doc
    /\ \A d \in Idents \ {last.doc} : records[d].object_id = 0

====
